---- MODULE Spec2Model ----
(***************************************************************************)
(* The websocket session layer of worterbuch-client (src/ws.rs): connect   *)
(* reads one frame and validates the handshake, connected spawns the       *)
(* Outbound Pump (command queue -> transport) and the Inbound Pump         *)
(* (transport -> broadcast Event Bus) and returns the Connection.          *)
(***************************************************************************)
EXTENDS Naturals, Sequences, FiniteSets

\* ------------------------------------------------------------------ bounds
\* Frames the transport's read half delivers in one run (handshake included).
MaxFrames == 3
\* Commands the application submits in one run.
MaxCmds == 2
\* External subscriptions the application creates in one run.
MaxSubs == 2
\* Clones of the command producer alive at one time.
MaxClones == 1

\* History capacity of the Event Bus: the 1_000 of broadcast::channel(1_000),
\* scaled down so that MaxFrames frames can overflow it.
Capacity == 1

\* -------------------------------------------------------------- wire codec
\* Frame payloads, named by what the codec makes of them.
Payloads == {"hs", "ev", "eof", "bad"}

Hello == [type |-> "Handshake", separator |-> "/", wildcard |-> "?", multi_wildcard |-> "#"]
PState == [type |-> "PState", separator |-> "", wildcard |-> "", multi_wildcard |-> ""]

NoMessage == [type |-> "", separator |-> "", wildcard |-> "", multi_wildcard |-> ""]

\* read_server_message(&*data): Ok(Some(msg)), Ok(None) at the end of the
\* data (the end-of-session sentinel), or Err(decode error).
read_server_message(data) ==
  CASE data = "hs"  -> [tag |-> "Some", msg |-> Hello]
    [] data = "ev"  -> [tag |-> "Some", msg |-> PState]
    [] data = "eof" -> [tag |-> "None", msg |-> NoMessage]
    [] OTHER        -> [tag |-> "Err", msg |-> NoMessage]

\* Commands: the id-th command the application submits, which the codec can
\* encode (ok) or not.
Commands == [id : 1 .. MaxCmds, ok : BOOLEAN]

\* The bytes of an encoded command.
Bytes(cmd) == 10 + cmd.id

\* encode_message(&msg): Ok(data) or Err(encode error).
encode_message(cmd) ==
  IF cmd.ok THEN [tag |-> "Ok", data |-> Bytes(cmd)]
  ELSE [tag |-> "Err", data |-> 0]

\* --------------------------------------------------------- transport reads
\* What one ws_rx.next().await yields: Some(Ok(frame)), Some(Err(e)) or None.
Frames == [item : {"frame"}, binary : BOOLEAN, data : Payloads]

ReadError == [item |-> "error", binary |-> FALSE, data |-> ""]

StreamEnd == [item |-> "closed", binary |-> FALSE, data |-> ""]

VARIABLES
  pc,          \* connect: "start", "opened", "connected", "failed"
  connErr,     \* the error connect returned, "" if none
  params,      \* the Session Parameters of the Connection (NoMessage before)
  connLive,    \* the application still holds the Connection
  rxFrames,    \* frames consumed from the transport's read half
  rxEnded,     \* the read half has yielded None
  first,       \* history: what connect's read of the first frame yielded
  endPolls,    \* polls of the read half after it ended, modulo 2
  cmdTx,       \* live cmd_tx handles: connect's or the Connection's, and clones
  cmdRx,       \* cmd_rx is live
  cmdQueue,    \* the mpsc queue
  submitted,   \* history: the commands submit accepted, in order
  submitErr,   \* the error of the latest submit, "" if it returned Ok
  outPc,       \* Outbound Pump: "idle", "recv", "send", "exit", "done"
  outData,     \* the encoded frame the Outbound Pump is sending
  wire,        \* the frames written to the transport, in order
  taken,       \* history: commands cmd_rx.recv() has yielded
  outEnd,      \* why the Outbound Pump left its loop: "", "closed", "encode", "write"
  keepAlive,   \* result_rx, the receiver created with the bus, is live
  inPc,        \* Inbound Pump: "idle", "poll", "callback", "done"
  disconnects, \* times on_disconnect was awaited
  sawSentinel, \* history: the Inbound Pump read a binary end-of-session frame
  decoded,     \* history: the messages of the binary frames the pump read
  badAt,       \* history: 0, or 1 + Len(decoded) when the latest malformed
               \* binary frame was read
  ring,        \* the bus's retained messages (at most Capacity)
  tail,        \* messages the bus accepted so far
  sendFailed,  \* history: a result_tx_recv.send failed
  subs         \* the external receivers

vars == <<pc, connErr, params, connLive, rxFrames, rxEnded, first, endPolls, cmdTx,
          cmdRx, cmdQueue, submitted, submitErr, outPc, outData, wire, taken, outEnd,
          keepAlive, inPc, disconnects, sawSentinel, decoded, badAt, ring, tail,
          sendFailed, subs>>

connVars == <<pc, connErr, params>>
rxVars == <<rxFrames, rxEnded>>
cmdVars == <<cmdTx, cmdRx, cmdQueue, submitted, submitErr>>
outVars == <<outPc, outData, wire, taken, outEnd>>
inVars == <<inPc, disconnects, sawSentinel, decoded, badAt>>
busVars == <<ring, tail, sendFailed>>

Subs == 1 .. MaxSubs

NoSub == [st |-> "none", next |-> 0, since |-> 0, got |-> <<>>, lagged |-> FALSE, closed |-> FALSE]

Init ==
  /\ pc = "start" /\ connErr = "" /\ params = NoMessage /\ connLive = FALSE
  /\ rxFrames = 0 /\ rxEnded = FALSE /\ first = "unread" /\ endPolls = 0
  /\ cmdTx = 0 /\ cmdRx = FALSE /\ cmdQueue = <<>> /\ submitted = <<>> /\ submitErr = ""
  /\ outPc = "idle" /\ outData = 0 /\ wire = <<>> /\ taken = 0 /\ outEnd = ""
  /\ keepAlive = FALSE
  /\ inPc = "idle" /\ disconnects = 0 /\ sawSentinel = FALSE /\ decoded = <<>>
  /\ badAt = 0
  /\ ring = <<>> /\ tail = 0 /\ sendFailed = FALSE
  /\ subs = [s \in Subs |-> NoSub]

\* The outcomes the read half can yield next.
Polls ==
  IF rxEnded THEN {StreamEnd}
  ELSE {StreamEnd, ReadError} \cup (IF rxFrames < MaxFrames THEN Frames ELSE {})

\* The read half after yielding item.
Polled(item) ==
  /\ rxFrames' = IF item.item = "frame" THEN rxFrames + 1 ELSE rxFrames
  /\ rxEnded' = (rxEnded \/ item.item = "closed")

\* ------------------------------------------------------------------ connect
\* The match of connect on the first ws_rx.next().await: "ok" (connected is
\* called) or the error returned.  The frame's data is decoded whatever the
\* frame's kind (msg.into_data()).
\*   TransportError      Some(Err(e)) => Err(e.into())
\*   ProtocolDecodeError read_server_message(..).await?
\*   UnexpectedMessage   io::ErrorKind::InvalidData
\*   HandshakeAborted    io::ErrorKind::ConnectionAborted
\* HandshakeResult with the Some(SM::Handshake(..)) arm taking every message.
HandshakeResultAnyMessage(item) ==
  IF item.item = "frame" THEN
    LET r == read_server_message(item.data) IN
    IF r.tag = "Err" THEN "ProtocolDecodeError"
    ELSE IF r.tag = "Some" THEN "ok"
    ELSE "HandshakeAborted"
  ELSE IF item.item = "error" THEN "TransportError"
  ELSE "HandshakeAborted"

\* HandshakeResult with the None arm sharing the Some(Err(e)) arm's error.
HandshakeResultEndAsError(item) ==
  IF item.item = "frame" THEN
    LET r == read_server_message(item.data) IN
    IF r.tag = "Err" THEN "ProtocolDecodeError"
    ELSE IF r.tag = "Some" /\ r.msg.type = "Handshake" THEN "ok"
    ELSE IF r.tag = "Some" THEN "UnexpectedMessage"
    ELSE "HandshakeAborted"
  ELSE "TransportError"

\* HandshakeResult with the Some(other) arm sharing the None arm's error.
HandshakeResultOtherAsAborted(item) ==
  IF item.item = "frame" THEN
    LET r == read_server_message(item.data) IN
    IF r.tag = "Err" THEN "ProtocolDecodeError"
    ELSE IF r.tag = "Some" /\ r.msg.type = "Handshake" THEN "ok"
    ELSE "HandshakeAborted"
  ELSE IF item.item = "error" THEN "TransportError"
  ELSE "HandshakeAborted"

HandshakeResult(item) ==
  IF item.item = "frame" THEN
    LET r == read_server_message(item.data) IN
    IF r.tag = "Err" THEN "ProtocolDecodeError"
    ELSE IF r.tag = "Some" /\ r.msg.type = "Handshake" THEN "ok"
    ELSE IF r.tag = "Some" THEN "UnexpectedMessage"
    ELSE "HandshakeAborted"
  ELSE IF item.item = "error" THEN "TransportError"
  ELSE "HandshakeAborted"

\* The first read in the words of the handshake contract: the stream ended,
\* a transport error, or a frame by what its data decodes to.
FirstRead(item) ==
  CASE item.item = "closed" -> "closed"
    [] item.item = "error" -> "error"
    [] item.data = "hs" -> "handshake"
    [] item.data = "ev" -> "other"
    [] item.data = "eof" -> "sentinel"
    [] OTHER -> "malformed"

\* connect_async(url).await?, server.split(), and the two channels.
ConnectAsync ==
  /\ pc = "start"
  /\ \E ok \in BOOLEAN :
       IF ok
       THEN /\ pc' = "opened" /\ connErr' = connErr
            /\ cmdTx' = 1 /\ cmdRx' = TRUE /\ keepAlive' = TRUE
       ELSE /\ pc' = "failed" /\ connErr' = "TransportError"
            /\ UNCHANGED <<cmdTx, cmdRx, keepAlive>>
  /\ UNCHANGED <<params, connLive, rxVars, first, endPolls, cmdQueue, submitted,
                 submitErr, outVars, inVars, busVars, subs>>

\* connected with result_rx dropped instead of moved into the first task.
connectedDropsRx(handshake) ==
  /\ outPc' = "recv"
  /\ inPc' = "poll"
  /\ params' = [handshake EXCEPT !.type = "Params"]
  /\ connLive' = TRUE
  /\ pc' = "connected" /\ connErr' = connErr
  /\ keepAlive' = FALSE
  /\ UNCHANGED <<cmdTx, cmdRx>>

\* connected with the two wildcards handed to Connection::new in each
\* other's place.
connectedSwapsWildcards(handshake) ==
  /\ outPc' = "recv"
  /\ inPc' = "poll"
  /\ params' = [type |-> "Params", separator |-> handshake.separator,
                wildcard |-> handshake.multi_wildcard,
                multi_wildcard |-> handshake.wildcard]
  /\ connLive' = TRUE
  /\ pc' = "connected" /\ connErr' = connErr
  /\ UNCHANGED <<cmdTx, cmdRx, keepAlive>>

\* connected: both pumps are spawned, the Connection is built from the
\* handshake's fields.
connected(handshake) ==
  /\ outPc' = "recv"
  /\ inPc' = "poll"
  /\ params' = [handshake EXCEPT !.type = "Params"]
  /\ connLive' = TRUE
  /\ pc' = "connected" /\ connErr' = connErr
  /\ UNCHANGED <<cmdTx, cmdRx, keepAlive>>

\* ConnectFails with the two tasks spawned before the first frame is matched.
ConnectFailsAfterSpawn(err) ==
  /\ pc' = "failed" /\ connErr' = err
  /\ outPc' = "recv" /\ inPc' = "poll"
  /\ UNCHANGED <<params, connLive, cmdTx, cmdRx, keepAlive>>

\* An Err return of connect: the channel ends and the transport halves are
\* dropped, nothing is spawned.
ConnectFails(err) ==
  /\ pc' = "failed" /\ connErr' = err
  /\ cmdTx' = 0 /\ cmdRx' = FALSE /\ keepAlive' = FALSE
  /\ UNCHANGED <<params, connLive, outPc, inPc>>

\* match ws_rx.next().await { ... } of connect.
Handshake ==
  /\ pc = "opened"
  /\ \E item \in Polls :
       /\ Polled(item)
       /\ first' = FirstRead(item)
       /\ IF HandshakeResult(item) = "ok"
          THEN connected(read_server_message(item.data).msg)
          ELSE ConnectFails(HandshakeResult(item))
  /\ UNCHANGED <<endPolls, cmdQueue, submitted, submitErr, outData, wire, taken,
                 outEnd, disconnects, sawSentinel, decoded, badAt, busVars, subs>>

\* ------------------------------------------------------------ Outbound Pump
\* WsSend with the frame put ahead of those already written.
WsSendFirst(w, data) == <<data>> \o w

\* ws_tx.send(msg).await returning Ok: the frame follows those already written.
WsSend(w, data) == Append(w, data)

\* OutLeaveLoop without drop(result_rx).
OutLeaveLoopKeepsRx(why) ==
  /\ outPc' = "exit"
  /\ outEnd' = why
  /\ keepAlive' = keepAlive

\* The break paths and the loop's end all reach drop(result_rx).
OutLeaveLoop(why) ==
  /\ outPc' = "exit"
  /\ outEnd' = why
  /\ keepAlive' = FALSE

\* cmd_rx.recv().await yields Some(msg); encode_message(&msg).
OutRecv ==
  /\ outPc = "recv"
  /\ cmdQueue # <<>>
  /\ LET e == encode_message(Head(cmdQueue)) IN
       IF e.tag = "Ok"
       THEN /\ outPc' = "send" /\ outData' = e.data
            /\ UNCHANGED <<keepAlive, outEnd>>
       ELSE /\ OutLeaveLoop("encode")
            /\ outData' = outData
  /\ cmdQueue' = Tail(cmdQueue)
  /\ taken' = taken + 1
  /\ UNCHANGED <<connVars, connLive, rxVars, first, endPolls, cmdTx, cmdRx, submitted,
                 submitErr, wire, inVars, busVars, subs>>

\* OutClosed yielding None as soon as every cmd_tx is dropped, commands
\* still queued.
OutClosedUndrained ==
  /\ outPc = "recv"
  /\ cmdTx = 0
  /\ OutLeaveLoop("closed")
  /\ UNCHANGED <<connVars, connLive, rxVars, first, endPolls, cmdVars, outData, wire, taken,
                 inVars, busVars, subs>>

\* OutClosed with one more cmd_tx, held by the task itself, never dropped.
OutClosedHoldsSender ==
  /\ outPc = "recv"
  /\ cmdQueue = <<>>
  /\ cmdTx + 1 = 0
  /\ OutLeaveLoop("closed")
  /\ UNCHANGED <<connVars, connLive, rxVars, first, endPolls, cmdVars, outData, wire, taken,
                 inVars, busVars, subs>>

\* cmd_rx.recv().await yields None: the queue is empty and every cmd_tx dropped.
OutClosed ==
  /\ outPc = "recv"
  /\ cmdQueue = <<>>
  /\ cmdTx = 0
  /\ OutLeaveLoop("closed")
  /\ UNCHANGED <<connVars, connLive, rxVars, first, endPolls, cmdVars, outData, wire, taken,
                 inVars, busVars, subs>>

\* OutSend without the break: after a failed write the loop goes on.
OutSendNoBreak ==
  /\ outPc = "send"
  /\ \E ok \in BOOLEAN :
       /\ wire' = (IF ok THEN WsSend(wire, outData) ELSE wire)
       /\ outEnd' = (IF ok THEN outEnd ELSE "write")
  /\ outPc' = "recv"
  /\ outData' = 0
  /\ UNCHANGED <<connVars, connLive, rxVars, first, endPolls, cmdVars, taken, keepAlive,
                 inVars, busVars, subs>>

\* ws_tx.send(msg).await: written, or Err(e) and break.
OutSend ==
  /\ outPc = "send"
  /\ \E ok \in BOOLEAN :
       IF ok
       THEN /\ wire' = WsSend(wire, outData)
            /\ outPc' = "recv"
            /\ UNCHANGED <<keepAlive, outEnd>>
       ELSE /\ OutLeaveLoop("write")
            /\ wire' = wire
  /\ outData' = 0
  /\ UNCHANGED <<connVars, connLive, rxVars, first, endPolls, cmdVars, taken, inVars,
                 busVars, subs>>

\* OutFinish with cmd_rx outliving the task.
OutFinishKeepsRx ==
  /\ outPc = "exit"
  /\ outPc' = "done"
  /\ UNCHANGED <<connVars, connLive, rxVars, first, endPolls, cmdVars, outData, wire, taken,
                 outEnd, keepAlive, inVars, busVars, subs>>

\* The task ends: cmd_rx (with what is still queued) and ws_tx are dropped.
OutFinish ==
  /\ outPc = "exit"
  /\ outPc' = "done"
  /\ cmdRx' = FALSE
  /\ cmdQueue' = <<>>
  /\ UNCHANGED <<connVars, connLive, rxVars, first, endPolls, cmdTx, submitted, submitErr,
                 outData, wire, taken, outEnd, keepAlive, inVars, busVars, subs>>

OutboundPump == OutRecv \/ OutClosed \/ OutSend \/ OutFinish

\* ---------------------------------------------------------------- Event Bus
\* Live receivers of the bus: result_rx and the external subscriptions.
RxCount == (IF keepAlive THEN 1 ELSE 0) + Cardinality({s \in Subs : subs[s].st = "live"})

\* The last n elements of q.
LastN(q, n) == IF Len(q) <= n THEN q ELSE SubSeq(q, Len(q) - n + 1, Len(q))

\* BusSend refusing a message when the ring is full.
BusSendKeepsOldest(msg) ==
  IF RxCount = 0
  THEN /\ sendFailed' = TRUE
       /\ UNCHANGED <<ring, tail>>
  ELSE IF Len(ring) = Capacity
  THEN UNCHANGED <<ring, tail, sendFailed>>
  ELSE /\ ring' = Append(ring, msg)
       /\ tail' = tail + 1
       /\ sendFailed' = sendFailed

\* result_tx_recv.send(msg): Err when no receiver is live (logged), else the
\* message enters the ring, the oldest retained one leaving a full ring.
BusSend(msg) ==
  IF RxCount = 0
  THEN /\ sendFailed' = TRUE
       /\ UNCHANGED <<ring, tail>>
  ELSE /\ ring' = LastN(Append(ring, msg), Capacity)
       /\ tail' = tail + 1
       /\ sendFailed' = sendFailed

\* ------------------------------------------------------------- Inbound Pump
\* Dispatch without the is_binary() test.
DispatchAnyKind(item) ==
  IF item.item = "frame" THEN
    LET r == read_server_message(item.data) IN
    IF r.tag = "Some" THEN "publish"
    ELSE IF r.tag = "None" THEN "disconnect"
    ELSE "skip"
  ELSE "skip"

\* Dispatch with the Err(e) arm treated as Ok(None).
DispatchErrDisconnects(item) ==
  IF item.item = "frame" THEN
    IF item.binary THEN
      LET r == read_server_message(item.data) IN
      IF r.tag = "Some" THEN "publish"
      ELSE "disconnect"
    ELSE "skip"
  ELSE "skip"

\* What one turn of the loop does with what ws_rx.next().await yielded.
Dispatch(item) ==
  IF item.item = "frame" THEN
    IF item.binary THEN
      LET r == read_server_message(item.data) IN
      IF r.tag = "Some" THEN "publish"
      ELSE IF r.tag = "None" THEN "disconnect"
      ELSE "skip"
    ELSE "skip"
  ELSE "skip"

\* The messages a read adds to the sequence of decoded events: that of a
\* binary frame that decodes to a message.
EventsOf(item) ==
  IF item.item = "frame" /\ item.binary /\ read_server_message(item.data).tag = "Some"
  THEN <<read_server_message(item.data).msg>>
  ELSE <<>>

\* A binary frame that decodes to the end-of-session sentinel.
IsSentinel(item) ==
  item.item = "frame" /\ item.binary /\ read_server_message(item.data).tag = "None"

\* A binary frame whose data fails to decode.
IsMalformed(item) ==
  item.item = "frame" /\ item.binary /\ read_server_message(item.data).tag = "Err"

\* InPublish ending the loop when the send fails.
InPublishBreaksOnErr(msg) ==
  /\ BusSend(msg)
  /\ inPc' = (IF RxCount = 0 THEN "done" ELSE inPc)
  /\ UNCHANGED disconnects

\* Ok(Some(msg)): result_tx_recv.send(msg), an Err only logged.
InPublish(msg) ==
  /\ BusSend(msg)
  /\ UNCHANGED <<inPc, disconnects>>

\* InDisconnect without the break.
InDisconnectNoBreak ==
  /\ disconnects' = disconnects + 1
  /\ UNCHANGED <<inPc, busVars>>

\* Ok(None): on_disconnect.await, then break.
InDisconnect ==
  /\ disconnects' = disconnects + 1
  /\ inPc' = "callback"
  /\ UNCHANGED busVars

\* InSkip ending the loop.
InSkipBreaks ==
  /\ inPc' = "done"
  /\ UNCHANGED <<disconnects, busVars>>

\* Every other turn: nothing but the next turn of the loop.
InSkip == UNCHANGED <<inPc, disconnects, busVars>>

\* One turn of the loop of the second spawned task.
InboundPump ==
  /\ inPc = "poll"
  /\ \E item \in Polls :
       /\ Polled(item)
       /\ endPolls' = (IF rxEnded THEN 1 - endPolls ELSE endPolls)
       /\ first' = first
       /\ decoded' = decoded \o EventsOf(item)
       /\ sawSentinel' = (sawSentinel \/ IsSentinel(item))
       /\ badAt' = (IF IsMalformed(item) THEN 1 + Len(decoded) ELSE badAt)
       /\ CASE Dispatch(item) = "publish" -> InPublish(read_server_message(item.data).msg)
            [] Dispatch(item) = "disconnect" -> InDisconnect
            [] OTHER -> InSkip
  /\ UNCHANGED <<connVars, connLive, cmdVars, outVars, keepAlive, subs>>

\* on_disconnect.await completes; break; the task ends and drops
\* result_tx_recv and ws_rx.
InboundFinish ==
  /\ inPc = "callback"
  /\ inPc' = "done"
  /\ UNCHANGED <<connVars, connLive, rxVars, first, endPolls, cmdVars, outVars, keepAlive,
                 disconnects, sawSentinel, decoded, badAt, busVars, subs>>

\* -------------------------------------------------------------- application
\* The command producer of the Connection or of a clone: cmd_tx.send(cmd),
\* an error once cmd_rx is gone.
Submit(cmd) ==
  /\ pc = "connected"
  /\ cmdTx > 0
  /\ cmd.id = Len(submitted) + 1
  /\ IF ~cmdRx
     THEN /\ submitErr' = "QueueClosed"
          /\ UNCHANGED <<cmdQueue, submitted>>
     ELSE /\ cmdQueue' = Append(cmdQueue, cmd)
          /\ submitted' = Append(submitted, cmd)
          /\ submitErr' = ""
  /\ UNCHANGED <<connVars, connLive, rxVars, first, endPolls, cmdTx, cmdRx, outVars,
                 keepAlive, inVars, busVars, subs>>

\* The application clones the command producer.
CloneProducer ==
  /\ pc = "connected"
  /\ cmdTx > 0
  /\ cmdTx - (IF connLive THEN 1 ELSE 0) < MaxClones
  /\ cmdTx' = cmdTx + 1
  /\ UNCHANGED <<connVars, connLive, rxVars, first, endPolls, cmdRx, cmdQueue, submitted,
                 submitErr, outVars, keepAlive, inVars, busVars, subs>>

\* The application drops a clone of the command producer.
DropClone ==
  /\ pc = "connected"
  /\ cmdTx - (IF connLive THEN 1 ELSE 0) > 0
  /\ cmdTx' = cmdTx - 1
  /\ UNCHANGED <<connVars, connLive, rxVars, first, endPolls, cmdRx, cmdQueue, submitted,
                 submitErr, outVars, keepAlive, inVars, busVars, subs>>

\* The application drops the Connection: its cmd_tx and its result_tx go.
DropConnection ==
  /\ connLive
  /\ connLive' = FALSE
  /\ cmdTx' = cmdTx - 1
  /\ UNCHANGED <<connVars, rxVars, first, endPolls, cmdRx, cmdQueue, submitted,
                 submitErr, outVars, keepAlive, inVars, busVars, subs>>

\* result_tx.subscribe(): a receiver that starts at the bus's tail.  s is the
\* application's s-th subscription.
Subscribe(s) ==
  /\ connLive
  /\ subs[s].st = "none"
  /\ \A t \in Subs : t < s => subs[t].st # "none"
  /\ subs' = [subs EXCEPT ![s] = [st |-> "live", next |-> tail, since |-> Len(decoded),
                                  got |-> <<>>, lagged |-> FALSE, closed |-> FALSE]]
  /\ UNCHANGED <<connVars, connLive, rxVars, first, endPolls, cmdVars, outVars, keepAlive,
                 inVars, busVars>>

\* TxCount with result_tx_recv outliving the second task.
TxCountPumpKeeps == (IF connLive THEN 1 ELSE 0) + (IF inPc # "idle" THEN 1 ELSE 0)

\* Live senders of the bus: the Connection's result_tx and the Inbound
\* Pump's result_tx_recv.
TxCount == (IF connLive THEN 1 ELSE 0) + (IF inPc \in {"poll", "callback"} THEN 1 ELSE 0)

\* Receiver::recv of subscription s, when it does not stay pending: Lagged
\* (the cursor moves to the oldest retained message), the next message, or
\* Closed (nothing left and no sender).
Recv(s) ==
  /\ subs[s].st = "live"
  /\ ~subs[s].closed
  /\ LET r == subs[s]
         oldest == tail - Len(ring)
     IN  IF r.next < oldest
         THEN subs' = [subs EXCEPT ![s].next = oldest, ![s].lagged = TRUE]
         ELSE IF r.next < tail
         THEN subs' = [subs EXCEPT ![s].next = r.next + 1,
                                   ![s].got = Append(r.got, ring[r.next - oldest + 1])]
         ELSE /\ TxCount = 0
              /\ subs' = [subs EXCEPT ![s].closed = TRUE]
  /\ UNCHANGED <<connVars, connLive, rxVars, first, endPolls, cmdVars, outVars, keepAlive,
                 inVars, busVars>>

\* The application drops subscription s.
Unsubscribe(s) ==
  /\ subs[s].st = "live"
  /\ subs' = [subs EXCEPT ![s] = [NoSub EXCEPT !.st = "dropped"]]
  /\ UNCHANGED <<connVars, connLive, rxVars, first, endPolls, cmdVars, outVars, keepAlive,
                 inVars, busVars>>

\* ------------------------------------------------------------ specification
\* connect, the Inbound Pump, and the drop of the Connection.
Session ==
  \/ ConnectAsync
  \/ Handshake
  \/ InboundPump
  \/ InboundFinish
  \/ DropConnection

\* The application as a producer of commands.
Commanding ==
  \/ \E cmd \in Commands : Submit(cmd)
  \/ CloneProducer
  \/ DropClone

\* The application as a consumer of events.
Subscribing ==
  \/ \E s \in Subs : Subscribe(s)
  \/ \E s \in Subs : Recv(s)
  \/ \E s \in Subs : Unsubscribe(s)

Next == Session \/ OutboundPump \/ Commanding \/ Subscribing

Spec == Init /\ [][Next]_vars

\* The sessions of an application that submits commands and makes no
\* subscription of its own: the bus's only receiver is result_rx.
NextCmd == Session \/ OutboundPump \/ Commanding

SpecCmd == Init /\ [][NextCmd]_vars

\* The sessions of an application that subscribes and submits no command:
\* the queue stays empty, and of the Outbound Pump's steps only the queue's
\* closure and the task's end can be taken.
NextBus == Session \/ OutClosed \/ OutFinish \/ Subscribing

SpecBus == Init /\ [][NextBus]_vars

\* The sessions of an application that submits commands through its
\* Connection and reads one subscription, which it keeps.
NextMix ==
  \/ Session
  \/ OutboundPump
  \/ \E cmd \in Commands : Submit(cmd)
  \/ Subscribe(1)
  \/ Recv(1)

SpecMix == Init /\ [][NextMix]_vars

\* The runtime schedules both spawned tasks, and on_disconnect completes.
Fairness ==
  /\ WF_vars(OutboundPump)
  /\ WF_vars(InboundPump)
  /\ WF_vars(InboundFinish)

FairCmd == SpecCmd /\ Fairness

FairBus == SpecBus /\ Fairness

\* FairBus with an application that keeps reading the subscriptions it holds.
FairSub == FairBus /\ \A s \in Subs : WF_vars(Recv(s))

\* ------------------------------------------------------------------- claims
\* The encodings of a sequence of commands.
Encodings(cmds) == [i \in 1 .. Len(cmds) |-> Bytes(cmds[i])]

\* a is an initial segment of b.
IsPrefix(a, b) == Len(a) <= Len(b) /\ a = SubSeq(b, 1, Len(a))

\* a is b with some elements left out.
RECURSIVE IsSubseq(_, _)
IsSubseq(a, b) ==
  IF a = <<>> THEN TRUE
  ELSE IF b = <<>> THEN FALSE
  ELSE IF Head(a) = Head(b) THEN IsSubseq(Tail(a), Tail(b))
  ELSE IsSubseq(a, Tail(b))

\* The events decoded since subscription s was created.
After(s) == SubSeq(decoded, subs[s].since + 1, Len(decoded))

Live(s) == subs[s].st = "live"

\* C1: the frames written to the transport are, in order, the encodings of
\* the first commands submitted: none reordered, duplicated or written ahead
\* of an earlier one.
C1_WrittenInSubmitOrder == IsPrefix(wire, Encodings(submitted))

C1_TwoCommandsWritten == Len(wire) = 2 /\ wire[1] # wire[2]

NoSessionYet ==
  pc # "connected" =>
    /\ outPc = "idle" /\ inPc = "idle"
    /\ wire = <<>> /\ tail = 0 /\ ~sendFailed /\ decoded = <<>>
    /\ rxFrames <= 1 /\ first # "handshake"

Spawned == outPc # "idle" \/ inPc # "idle"

C3_NothingBeforeHandshake ==
  [][/\ NoSessionYet /\ NoSessionYet'
     /\ (~Spawned /\ Spawned') =>
          (rxFrames' = 1 /\ first' = "handshake" /\ outPc' # "idle" /\ inPc' # "idle")]_vars

C3_SessionAtWork == pc = "connected" /\ wire # <<>> /\ tail >= 1

\* C4: connect returns a Connection exactly when the first read yielded a
\* frame that decodes to a handshake; every other outcome of that read is an
\* error, after which no further frame is read.
C4_HandleIffHandshake ==
  /\ pc = "connected" <=> first = "handshake"
  /\ connLive => pc = "connected"
  /\ first \in {"closed", "error", "malformed", "other", "sentinel"} =>
       (pc = "failed" /\ connErr # "" /\ rxFrames <= 1 /\ ~Spawned)

C4_SentinelFirst == first = "sentinel" /\ pc = "failed" /\ rxFrames = 1

\* C5: a stream that ends before any frame makes connect fail with
\* HandshakeAborted; no Connection, no pump.
C5_EmptyStreamAborts ==
  first = "closed" =>
    (pc = "failed" /\ connErr = "HandshakeAborted" /\ ~connLive /\ ~Spawned)

C5_EmptyStream == first = "closed" /\ rxFrames = 0 /\ connErr = "HandshakeAborted"

\* C6: a first frame that decodes to a message other than a handshake makes
\* connect fail with UnexpectedMessage, and no pump is spawned.
C6_WrongMessageRejected ==
  first = "other" =>
    (pc = "failed" /\ connErr = "UnexpectedMessage" /\ ~connLive /\ ~Spawned)

C6_WrongMessage == first = "other" /\ connErr = "UnexpectedMessage"

\* C7: once the Inbound Pump has read the sentinel the callback has been
\* invoked exactly once, and from then on the pump reads no frame, invokes
\* nothing and publishes nothing, whatever the transport could still deliver.
C7_DisconnectOnce ==
  [][/\ sawSentinel' => (disconnects' = 1 /\ inPc' \in {"callback", "done"})
     /\ sawSentinel => UNCHANGED <<disconnects, rxFrames, decoded, busVars>>]_vars

C7_StoppedWithFramesLeft ==
  /\ inPc = "done" /\ disconnects = 1
  /\ ~rxEnded /\ rxFrames < MaxFrames

\* C8: once the read half has signalled the end of the stream, the Inbound
\* Pump invokes the callback and terminates.
C8_EndOfStreamDisconnects ==
  (pc = "connected" /\ rxEnded /\ inPc = "poll") ~> (disconnects >= 1 /\ inPc = "done")

\* C9: the callback has been invoked only if the Inbound Pump read the
\* end-of-session sentinel.
C9_CallbackOnlyOnSentinel == disconnects > 0 => sawSentinel

C9_CallbackAfterFailures ==
  disconnects = 1 /\ sawSentinel /\ sendFailed /\ outPc = "done"

\* C10 as stated: throughout a session the bus has a live receiver and no
\* publication has failed.
C10_AlwaysAReceiver == pc = "connected" => (RxCount >= 1 /\ ~sendFailed)

\* C10 amended: the bus has a live receiver, and no publication has failed,
\* as long as the Outbound Pump is in its loop.
C10_ReceiverWhileOutboundRuns ==
  (pc = "connected" /\ outPc \in {"recv", "send"}) => (RxCount >= 1 /\ ~sendFailed)

C10_PublishedWhileOutboundRuns == outPc = "send" /\ tail >= 2

\* C11: the turn that reads a binary frame failing to decode publishes
\* nothing, invokes nothing and leaves the Inbound Pump reading; an event
\* decoded after such a frame is published to the live receivers.
C11_MalformedSkipped ==
  [][/\ badAt' # badAt =>
          (inPc' = "poll" /\ UNCHANGED <<disconnects, decoded, busVars, subs>>)
     /\ (badAt > 0 /\ decoded' # decoded /\ RxCount >= 1) =>
          (tail' = tail + 1 /\ ring'[Len(ring')] = decoded'[Len(decoded')])]_vars

C11_EventAfterMalformed ==
  \E s \in Subs :
    /\ Live(s) /\ subs[s].since = 0
    /\ badAt = 1 /\ Len(decoded) = 1 /\ subs[s].got = decoded

\* C12 as stated: no accepted command is left behind; once the Outbound Pump
\* has ended, every accepted command has been taken from the queue.
C12_EveryAcceptedCommandTaken == outPc = "done" => taken = Len(submitted)

\* The pump left its loop on an encode or a write failure.
OutFailed == outEnd \in {"encode", "write"}

\* C12 amended: every accepted command is eventually taken from the queue,
\* unless the pump leaves its loop on an encode or a write failure.
C12_TakenUnlessPumpFailed ==
  \A i \in 1 .. MaxCmds : (Len(submitted) >= i) ~> (taken >= i \/ OutFailed)

C12_AllTaken ==
  outPc = "done" /\ outEnd = "closed" /\ Len(submitted) = 2 /\ taken = 2

\* C13: a submit fails with QueueClosed only once the Outbound Pump's task has
\* ended, and no submit is accepted after that; a submit accepted before
\* appends its command to the queue.
C13_QueueClosedIffPumpEnded ==
  [][/\ submitErr' = "QueueClosed" => outPc = "done"
     /\ submitted' # submitted =>
          /\ outPc # "done"
          /\ submitErr' = submitErr
          /\ cmdQueue' = Append(cmdQueue, submitted'[Len(submitted')])]_vars

C13_AcceptedThenRefused ==
  submitErr = "QueueClosed" /\ Len(submitted) >= 1 /\ outPc = "done"

\* C14: once the Connection's producer and every clone of it are dropped, the
\* Outbound Pump's task eventually ends; unless an encode or a write failed,
\* it ends on the closed queue with every accepted command written.
C14_ClosedQueueEndsPump ==
  (pc = "connected" /\ cmdTx = 0) ~>
    (outPc = "done" /\ (OutFailed \/ (outEnd = "closed" /\ wire = Encodings(submitted))))

C14_DrainedThenEnded ==
  /\ cmdTx = 0 /\ outPc = "done" /\ outEnd = "closed"
  /\ Len(wire) = 2 /\ wire = Encodings(submitted)

\* C15: each pump leaves its loop for its own reasons only, the Inbound Pump
\* on the sentinel and the Outbound Pump on the queue's closure or an encode
\* or write failure, and the step that ends one changes nothing of the other;
\* after the Outbound Pump has left its loop the Inbound Pump still reads and
\* publishes, and after the Inbound Pump has left its loop the Outbound Pump
\* still takes and writes commands.
C15_PumpsIndependent ==
  [][/\ (inPc = "poll" /\ inPc' # "poll") =>
          (sawSentinel' /\ UNCHANGED <<outVars, cmdVars, keepAlive>>)
     /\ (outPc \in {"recv", "send"} /\ outPc' \notin {"recv", "send"}) =>
          (outEnd' \in {"closed", "encode", "write"} /\ UNCHANGED <<inVars, rxVars, busVars>>)
     /\ (outPc \in {"exit", "done"} /\ decoded' # decoded) =>
          /\ inPc' = "poll"
          /\ IF RxCount >= 1 THEN tail' = tail + 1 ELSE sendFailed'
     /\ (inPc \in {"callback", "done"} /\ taken' # taken) =>
          (cmdQueue' = Tail(cmdQueue) /\ outPc' \in {"send", "exit"})
     /\ (inPc \in {"callback", "done"} /\ wire' # wire) =>
          (wire' = Append(wire, outData) /\ outPc' = "recv")]_vars

C15_PublishedAfterOutboundFailed ==
  /\ outPc = "done" /\ OutFailed
  /\ sendFailed
  /\ Live(1) /\ Len(subs[1].got) >= 1
  /\ inPc = "poll"

\* The Outbound Pump about to write a command, the Inbound Pump's task over.
C15_WritingAfterInboundEnded == inPc = "done" /\ outPc = "send" /\ Len(wire) = 1

\* C16 as stated: once the Inbound Pump has processed the sentinel, every
\* subscriber that keeps reading has eventually observed the end of its stream.
C16_StreamEndsAfterSentinel ==
  sawSentinel ~> (\A s \in Subs : Live(s) => subs[s].closed)

\* C16 amended: once the Inbound Pump has processed the sentinel and the
\* application has dropped the Connection, every subscriber that keeps
\* reading has eventually observed the end of its stream.
C16_StreamEndsOnceConnectionDropped ==
  (sawSentinel /\ ~connLive) ~> (\A s \in Subs : Live(s) => subs[s].closed)

C16_ConsumedThenEnded ==
  \E s \in Subs :
    /\ Live(s) /\ subs[s].closed /\ Len(subs[s].got) >= 1
    /\ sawSentinel /\ disconnects = 1

\* C17: from the moment connect returns a Connection, its separator, wildcard
\* and multi-wildcard are those of the handshake message, and a step of the
\* session never changes them.
C17_ParamsFromHandshake ==
  [][/\ pc' = "connected" =>
          /\ params'.separator = Hello.separator
          /\ params'.wildcard = Hello.wildcard
          /\ params'.multi_wildcard = Hello.multi_wildcard
     /\ pc = "connected" => params' = params]_vars

C17_ParamsAfterBothPumpsEnded ==
  /\ pc = "connected" /\ outPc = "done" /\ inPc = "done"
  /\ wire # <<>> /\ decoded # <<>>
  /\ params = [type |-> "Params", separator |-> "/", wildcard |-> "?",
               multi_wildcard |-> "#"]

\* C18: a read by a subscriber that has read nothing yet, with more than
\* Capacity events published since it was created, reports the lag and
\* returns no event, its cursor moving to the oldest retained event; and a
\* publication with a live receiver always enters the ring at once, the ring
\* never holding more than Capacity events.
C18_OverflowReportsLag ==
  [][/\ \A s \in Subs :
          (/\ Live(s) /\ subs[s].got = <<>> /\ ~subs[s].lagged
           /\ tail - subs[s].next >= Capacity + 1
           /\ subs'[s] # subs[s] /\ subs'[s].st = "live") =>
          (subs'[s].lagged /\ subs'[s].got = <<>> /\ subs'[s].next = tail - Capacity)
     /\ (decoded' # decoded /\ RxCount >= 1) =>
          /\ tail' = tail + 1
          /\ Len(ring') <= Capacity
          /\ ring'[Len(ring')] = decoded'[Len(decoded')]]_vars

C18_FirstReadLagged ==
  \E s \in Subs :
    /\ Live(s) /\ subs[s].since = 0
    /\ tail = Capacity + 1
    /\ subs[s].lagged /\ subs[s].got = <<>> /\ subs[s].next = tail - Capacity

\* C19: the step on which an encoding or a write fails takes the Outbound Pump
\* out of its loop; from then on nothing is taken and nothing written, the
\* frames written are those of the commands accepted before the failed one,
\* the queue holds only the commands accepted after it, and no frame has
\* been written twice.
C19_FailureEndsPump ==
  [][/\ (~OutFailed /\ OutFailed') => (outPc' = "exit" /\ wire' = wire)
     /\ OutFailed => (wire' = wire /\ taken' = taken /\ outEnd' = outEnd)
     /\ OutFailed' =>
          /\ outPc' \in {"exit", "done"}
          /\ wire' = Encodings(SubSeq(submitted', 1, taken' - 1))
          /\ cmdRx' => cmdQueue' = SubSeq(submitted', taken' + 1, Len(submitted'))
     /\ \A i, j \in 1 .. Len(wire') : i # j => wire'[i] # wire'[j]]_vars

C19_LaterCommandNeverWritten ==
  /\ outEnd = "write" /\ outPc = "done"
  /\ Len(submitted) = 2 /\ taken = 1 /\ wire = <<>>

\* C20: result_rx, the bus's keep-alive receiver, is live exactly from its
\* creation in connect until the Outbound Pump leaves its loop, whatever the
\* reason and whatever the Inbound Pump's state: before the handshake it is
\* held by connect, afterwards by the first task as long as it is in its loop.
C20_KeepAliveWhilePumpRuns ==
  keepAlive <=> (pc = "opened" \/ (pc = "connected" /\ outPc \in {"recv", "send"}))

C20_ReleasedWhileInboundRuns ==
  /\ outPc = "exit" /\ outEnd = "write" /\ ~keepAlive
  /\ inPc = "poll" /\ tail >= 1

\* The keep-alive receiver held by the Outbound Pump, the Inbound Pump's task over.
C20_HeldAfterInboundEnded == keepAlive /\ outPc = "recv" /\ inPc = "done"

====
